---- MODULE Spec2Model ----
(***************************************************************************)
(* Model of LIS_NetCDF_to_Zarr/lis_netcdf_to_zarr.py: the conversion       *)
(* driver (configuration, input enumeration, recipe construction, the      *)
(* prepare / store / finalize phases) and the grid reconstruction          *)
(* add_latlon_coords.                                                      *)
(*                                                                         *)
(* Numbers.  Grid attributes are decimal numbers; a raw attribute value is *)
(* an integer count of ten-thousandths (0.25 is 2500) and a value rounded  *)
(* to three decimals is an integer count of thousandths (0.25 is 250).     *)
(* Python floats are binary64: their error (2^-53 relative) is far below   *)
(* the binary32 grain and is not modelled.  The binary32 values that       *)
(* np.linspace(..., dtype=np.float32) returns are modelled exactly, as     *)
(* sign / 24-bit mantissa / exponent triples.                              *)
(***************************************************************************)
EXTENDS Integers, Sequences, FiniteSets, TLC

VARIABLES
    config,      \* the configuration document named on the command line
    nfiles,      \* how many objects of the bucket match input_path
    bound,       \* the configuration keys bound as module globals
    pc,          \* the statement the script is at
    logging,     \* pangeo_forge_recipes logging is switched on
    globbed,     \* s3.glob has listed the bucket
    tmpdir,      \* tempfile.TemporaryDirectory has created a directory
    input_urls,  \* the ordered input URLs
    recipe,      \* the XarrayZarrRecipe
    all_chunks,  \* list(recipe.iter_chunks()) of line 185
    loop,        \* the iterator of the store loop and tqdm's total
    calls,       \* the calls made on the target store, in order
    stdout,      \* the phase announcements printed
    error,       \* the exception that ended the run
    exit_code,   \* the exit status of the process, -1 while it runs
    ds,          \* the frame handed to preprocess
    out          \* the result of preprocess

driver == <<config, nfiles, bound, pc, logging, globbed, tmpdir, input_urls,
            recipe, all_chunks, loop, calls, stdout, error, exit_code>>

vars == <<config, nfiles, bound, pc, logging, globbed, tmpdir, input_urls,
          recipe, all_chunks, loop, calls, stdout, error, exit_code, ds, out>>

(***************************************************************************)
(* Bounds of the model.                                                    *)
(***************************************************************************)
MaxLen == 3
MaxFiles == 3
MaxPerChunk == 2
MaxItems == 2

(***************************************************************************)
(* binary32 arithmetic.                                                    *)
(***************************************************************************)
\* The mantissa width of np.float32 (24 bits, the leading one included).
MantissaBits == 24

Abs(x) == IF x < 0 THEN -x ELSE x

\* Long division of q + r/den by powers of two until the quotient has
\* MantissaBits bits: q * 2^-j <= value < (q + 1) * 2^-j.
RECURSIVE Normalize(_, _, _, _)
Normalize(q, r, den, j) ==
    IF q >= 2^(MantissaBits - 1)
    THEN [q |-> q, r |-> r, j |-> j]
    ELSE Normalize(2 * q + (IF 2 * r >= den THEN 1 ELSE 0), (2 * r) % den, den, j + 1)

\* A binary32 value: (-1)^neg * k * 2^-j with 2^23 <= k < 2^24, or zero.
Pack(neg, k, j) ==
    IF k = 2^MantissaBits
    THEN [neg |-> neg, k |-> 2^(MantissaBits - 1), j |-> j - 1]
    ELSE [neg |-> neg, k |-> k, j |-> j]

F32Zero == [neg |-> FALSE, k |-> 0, j |-> 0]

\* The conversion to np.float32 of the rational num/den (den > 0,
\* |num/den| < 2^24): round to nearest, ties to even.
Float32(num, den) ==
    IF num = 0 THEN F32Zero
    ELSE LET n == Normalize(Abs(num) \div den, Abs(num) % den, den, 0)
             up == (2 * n.r > den) \/ (2 * n.r = den /\ n.q % 2 = 1)
         IN  Pack(num < 0, IF up THEN n.q + 1 ELSE n.q, n.j)

\* num/den is a binary32 value: the conversion loses nothing.
Representable(num, den) ==
    num = 0 \/ Normalize(Abs(num) \div den, Abs(num) % den, den, 0).r = 0

\* The largest binary32 value <= num/den, and the smallest one >= num/den.
Float32Down(num, den) ==
    IF num = 0 THEN F32Zero
    ELSE LET n == Normalize(Abs(num) \div den, Abs(num) % den, den, 0)
         IN  Pack(num < 0, IF num < 0 /\ n.r > 0 THEN n.q + 1 ELSE n.q, n.j)

Float32Up(num, den) ==
    IF num = 0 THEN F32Zero
    ELSE LET n == Normalize(Abs(num) \div den, Abs(num) % den, den, 0)
         IN  Pack(num < 0, IF num > 0 /\ n.r > 0 THEN n.q + 1 ELSE n.q, n.j)

\* The order of binary32 values.
MagLess(f, g) ==
    \/ f.k = 0 /\ g.k # 0
    \/ f.k # 0 /\ g.k # 0 /\ (f.j > g.j \/ (f.j = g.j /\ f.k < g.k))

F32Less(f, g) ==
    IF f.neg
    THEN IF g.neg THEN MagLess(g, f) ELSE TRUE
    ELSE IF g.neg THEN FALSE ELSE MagLess(f, g)

F32Leq(f, g) == f = g \/ F32Less(f, g)

(***************************************************************************)
(* Frames and grid descriptions.                                           *)
(***************************************************************************)
AttrNames == {"DX", "DY", "SOUTH_WEST_CORNER_LAT", "SOUTH_WEST_CORNER_LON"}

Absent == [tag |-> "absent", v |-> 0]
NonNumeric == [tag |-> "str", v |-> 0]
Num(v) == [tag |-> "num", v |-> v]

\* Raw attribute values, in ten-thousandths.  None is a decimal tie (last
\* digit 5): a tie is no binary64 value, so round() never sees one.
Resolutions == {4, 10, 1000, 2504}
Corners == {-1798750, -598750, -1799002, 200000000}

ResolutionAttrs == {Num(v) : v \in Resolutions} \cup {Absent, NonNumeric}
CornerAttrs == {Num(v) : v \in Corners} \cup {Absent, NonNumeric}

Frames ==
    [attrs : [DX : ResolutionAttrs, DY : {Num(2504), Num(4), Absent},
              SOUTH_WEST_CORNER_LAT : {Num(-598750), Num(200000000), NonNumeric},
              SOUTH_WEST_CORNER_LON : CornerAttrs],
     east_west : 0..MaxLen,
     north_south : 0..MaxLen,
     vars : {{"lat", "lon", "Rainf_tavg"}}]

(***************************************************************************)
(* add_latlon_coords.                                                      *)
(***************************************************************************)
\* The number of decimals kept by round(float(...), 3).
Decimals == 3

\* A variant that drops the fourth decimal instead of rounding.
Round3Truncate(v) == v \div 10

\* round(x, 3) of a raw value in ten-thousandths, in thousandths.
Round3(v) == (v + 5) \div 10

\* A variant that reads an absent attribute as attrs.get(name, 0).
AttrErrorDefault(attrs, name) ==
    IF attrs[name].tag = "str" THEN "ValueError" ELSE "none"

\* attrs[name]: KeyError when the attribute is absent; float(...):
\* ValueError when it is not a number.
AttrError(attrs, name) ==
    IF attrs[name].tag = "absent" THEN "KeyError"
    ELSE IF attrs[name].tag = "str" THEN "ValueError"
    ELSE "none"

\* np.linspace(start, stop, num, dtype=np.float32, endpoint=False): step is
\* (stop - start) / num, sample i is i * step + start, converted to float32.
\* start and stop are in thousandths.
\* The divisor of endpoint=True, a variant.
LinspaceDivEndpoint(num) == IF num > 1 THEN num - 1 ELSE 1

LinspaceDiv(num) == num

Linspace(start, stop, num) ==
    [i \in 1..num |->
        Float32((i - 1) * (stop - start) + start * LinspaceDiv(num),
                (10^Decimals) * LinspaceDiv(num))]

Raise(e) == [kind |-> "error", error |-> e, lat |-> <<>>, lon |-> <<>>,
             dims |-> {}, vars |-> {}]

\* The attributes in the order the function reads them.
FirstAttrError(attrs) ==
    IF AttrError(attrs, "DX") # "none" THEN AttrError(attrs, "DX")
    ELSE IF AttrError(attrs, "DY") # "none" THEN AttrError(attrs, "DY")
    ELSE IF AttrError(attrs, "SOUTH_WEST_CORNER_LAT") # "none"
         THEN AttrError(attrs, "SOUTH_WEST_CORNER_LAT")
    ELSE AttrError(attrs, "SOUTH_WEST_CORNER_LON")

add_latlon_coords(d) ==
    IF FirstAttrError(d.attrs) # "none" THEN Raise(FirstAttrError(d.attrs))
    ELSE LET dx == Round3(d.attrs.DX.v)
             dy == Round3(d.attrs.DY.v)
             ew_len == d.east_west
             ns_len == d.north_south
             ll_lat == Round3(d.attrs.SOUTH_WEST_CORNER_LAT.v)
             ll_lon == Round3(d.attrs.SOUTH_WEST_CORNER_LON.v)
             ur_lat == ll_lat + (dy * ns_len)
             ur_lon == ll_lon + (dx * ew_len)
         IN  [kind |-> "ok", error |-> "none",
              lat |-> Linspace(ll_lat, ur_lat, ns_len),
              lon |-> Linspace(ll_lon, ur_lon, ew_len),
              dims |-> {"lat", "lon"},
              vars |-> (d.vars \ {"lat", "lon"}) \cup {"orig_lat", "orig_lon"}]

preprocess(d) == add_latlon_coords(d)

NoOutput == [kind |-> "none", error |-> "none", lat |-> <<>>, lon |-> <<>>,
             dims |-> {}, vars |-> {}]

(***************************************************************************)
(* The configuration document and the chunk plan.                          *)
(***************************************************************************)
ConfigKeys == {"bucket", "input_path", "target_path", "temp_dir",
               "nitems_per_file", "inputs_per_chunk", "target_chunks",
               "enable_logging"}

\* The documents tried: the complete one, and each one lacking one key.
Configs ==
    [keys : {ConfigKeys} \cup {ConfigKeys \ {k} : k \in ConfigKeys},
     enable_logging : BOOLEAN,
     nitems_per_file : 1..MaxItems,
     inputs_per_chunk : 1..MaxPerChunk]

Min(a, b) == IF a < b THEN a ELSE b

\* recipe.iter_chunks(): consecutive groups of inputs_per_chunk inputs, the
\* last one possibly shorter, each with its ordinal and its offset on the
\* time axis.
\* The method belongs to pangeo_forge_recipes, which the sources do not
\* hold: this is the chunk planner's documented contract.  The driver calls
\* it twice (lines 185 and 193) on the same, unchanged recipe.
iter_chunks(r) ==
    LET L == Len(r.pattern.urls)
        k == r.inputs_per_chunk
    IN  [j \in 1..((L + k - 1) \div k) |->
            [ordinal |-> j - 1,
             inputs |-> SubSeq(r.pattern.urls, (j - 1) * k + 1, Min(j * k, L)),
             offset |-> (j - 1) * k * r.pattern.nitems_per_file]]

NoRecipe == [pattern |-> [urls |-> <<>>, nitems_per_file |-> 0],
             inputs_per_chunk |-> 0]
NoLoop == [chunks |-> <<>>, next |-> 0, total |-> 0]

\* The frames a chunk of the run may hold: a well-formed one, one without
\* DX, one whose corner longitude is text.
GoodAttrs == [DX |-> Num(2504), DY |-> Num(2504),
              SOUTH_WEST_CORNER_LAT |-> Num(-598750),
              SOUTH_WEST_CORNER_LON |-> Num(-1798750)]
IdleFrame == [attrs |-> GoodAttrs, east_west |-> 2, north_south |-> 2,
              vars |-> {"lat", "lon", "Rainf_tavg"}]
ChunkFrames ==
    {IdleFrame,
     [IdleFrame EXCEPT !.attrs.DX = Absent],
     [IdleFrame EXCEPT !.attrs.SOUTH_WEST_CORNER_LON = NonNumeric]}

(***************************************************************************)
(* The script, statement by statement.                                     *)
(***************************************************************************)
Init ==
    /\ config \in Configs
    /\ nfiles \in 0..MaxFiles
    /\ bound = {}
    /\ pc = "load_config"
    /\ logging = FALSE
    /\ globbed = FALSE
    /\ tmpdir = FALSE
    /\ input_urls = <<>>
    /\ recipe = NoRecipe
    /\ all_chunks = <<>>
    /\ loop = NoLoop
    /\ calls = <<>>
    /\ stdout = <<>>
    /\ error = "none"
    /\ exit_code = -1
    /\ ds = IdleFrame
    /\ out = NoOutput

\* An exception nothing catches: the interpreter prints the traceback and
\* exits with status 1.
Propagate(e) == [pc |-> "aborted", error |-> e, exit_code |-> 1]

AbortWith(r) ==
    /\ pc' = r.pc
    /\ error' = r.error
    /\ exit_code' = r.exit_code

Abort(e) == AbortWith(Propagate(e))

Goto(label) ==
    /\ pc' = label
    /\ UNCHANGED <<error, exit_code>>

\* Lines 51-55: yaml.safe_load and globals().update(config_dict).
LoadConfig ==
    /\ pc = "load_config"
    /\ bound' = config.keys
    /\ Goto("logging")
    /\ UNCHANGED <<config, nfiles, logging, globbed, tmpdir, input_urls, recipe,
                   all_chunks, loop, calls, stdout, ds, out>>

\* Lines 58-65: the first read of a configuration key.
SetupLogging ==
    /\ pc = "logging"
    /\ IF "enable_logging" \notin bound
       THEN Abort("NameError") /\ UNCHANGED logging
       ELSE Goto("input_url") /\ logging' = config.enable_logging
    /\ UNCHANGED <<config, nfiles, bound, globbed, tmpdir, input_urls, recipe,
                   all_chunks, loop, calls, stdout, ds, out>>

\* Lines 68-75: build_url(input_path) reads input_path, then bucket.
BuildInputUrl ==
    /\ pc = "input_url"
    /\ IF "input_path" \notin bound \/ "bucket" \notin bound
       THEN Abort("NameError")
       ELSE Goto("glob")
    /\ UNCHANGED <<config, nfiles, bound, logging, globbed, tmpdir, input_urls,
                   recipe, all_chunks, loop, calls, stdout, ds, out>>

\* Line 78: the listing of the bucket, in the backend's order.
GlobInputs ==
    /\ pc = "glob"
    /\ globbed' = TRUE
    /\ input_urls' = [i \in 1..nfiles |-> i]
    /\ Goto("pattern")
    /\ UNCHANGED <<config, nfiles, bound, logging, tmpdir, recipe, all_chunks,
                   loop, calls, stdout, ds, out>>

\* Lines 81-83: pattern_from_file_sequence reads nitems_per_file.
MakePattern ==
    /\ pc = "pattern"
    /\ IF "nitems_per_file" \notin bound
       THEN Abort("NameError") /\ UNCHANGED recipe
       ELSE /\ Goto("create_recipe")
            /\ recipe' = [recipe EXCEPT !.pattern =
                            [urls |-> input_urls,
                             nitems_per_file |-> config.nitems_per_file]]
    /\ UNCHANGED <<config, nfiles, bound, logging, globbed, tmpdir, input_urls,
                   all_chunks, loop, calls, stdout, ds, out>>

\* Lines 153-170, called while the arguments of line 176 are evaluated:
\* temp_dir is read first, target_path next, and then the metadata
\* directory is created.
create_storage_config ==
    IF "temp_dir" \notin bound \/ "target_path" \notin bound
    THEN [raised |-> TRUE, tmpdir |-> FALSE]
    ELSE [raised |-> FALSE, tmpdir |-> TRUE]

\* Lines 174-181: the arguments are evaluated left to right:
\* inputs_per_chunk, create_storage_config(), target_chunks.
CreateRecipe ==
    /\ pc = "create_recipe"
    /\ stdout' = Append(stdout, "Creating recipe...")
    /\ IF "inputs_per_chunk" \notin bound
       THEN Abort("NameError") /\ UNCHANGED <<tmpdir, recipe>>
       ELSE /\ tmpdir' = create_storage_config.tmpdir
            /\ IF create_storage_config.raised \/ "target_chunks" \notin bound
               THEN Abort("NameError") /\ UNCHANGED recipe
               ELSE /\ Goto("list_chunks")
                    /\ recipe' = [recipe EXCEPT !.inputs_per_chunk =
                                    config.inputs_per_chunk]
    /\ UNCHANGED <<config, nfiles, bound, logging, globbed, input_urls,
                   all_chunks, loop, calls, ds, out>>

\* Line 185.
ListChunks ==
    /\ pc = "list_chunks"
    /\ all_chunks' = iter_chunks(recipe)
    /\ Goto("prepare")
    /\ UNCHANGED <<config, nfiles, bound, logging, globbed, tmpdir, input_urls,
                   recipe, loop, calls, stdout, ds, out>>

Call(op, chunk) == [op |-> op, chunk |-> chunk, state |-> "running"]

Finish(cs, how) == [cs EXCEPT ![Len(cs)].state = how]

\* Lines 188-189: the call of recipe.prepare_target().
PrepareBegin ==
    /\ pc = "prepare"
    /\ stdout' = Append(stdout, "Preparing target...")
    /\ calls' = Append(calls, Call("prepare", -1))
    /\ Goto("in_prepare")
    /\ UNCHANGED <<config, nfiles, bound, logging, globbed, tmpdir, input_urls,
                   recipe, all_chunks, loop, ds, out>>

\* prepare_target returns; lines 192-193 print, start the second
\* enumeration of the chunks and give tqdm the length of the first.
PrepareReturn ==
    /\ pc = "in_prepare"
    /\ calls' = Finish(calls, "returned")
    /\ stdout' = Append(stdout, "Executing recipe...")
    /\ loop' = [chunks |-> iter_chunks(recipe), next |-> 1,
                total |-> Len(all_chunks)]
    /\ Goto("store_loop")
    /\ UNCHANGED <<config, nfiles, bound, logging, globbed, tmpdir, input_urls,
                   recipe, all_chunks, ds, out>>

\* prepare_target raises (a failure of the storage collaborator).
PrepareRaise ==
    /\ pc = "in_prepare"
    /\ calls' = Finish(calls, "raised")
    /\ Abort("StorageError")
    /\ UNCHANGED <<config, nfiles, bound, logging, globbed, tmpdir, input_urls,
                   recipe, all_chunks, loop, stdout, ds, out>>

\* Variants of the loop: one that stops a chunk early, one that steps over
\* a chunk, one that catches the exception of store_chunk and goes on.
LoopExhaustedEarly(next, n) == next >= n

NextIndexSkip(next) == next + 2

StoreFailureSwallowed(e) == [pc |-> "store_loop", error |-> "none", exit_code |-> -1]

\* Line 193: the for statement ends when the iterator is exhausted, and
\* otherwise takes the next chunk.
LoopExhausted(next, n) == next > n

NextIndex(next) == next + 1

\* Line 194 stands in no try statement: what store_chunk raises leaves the
\* loop and the script.
StoreFailure(e) == Propagate(e)

\* Lines 193-194: the call of recipe.store_chunk(chunk); the engine reads
\* the chunk's frames and hands them to preprocess.
StoreChunkBegin ==
    /\ pc = "store_loop"
    /\ ~LoopExhausted(loop.next, Len(loop.chunks))
    /\ calls' = Append(calls, Call("store", loop.chunks[loop.next].ordinal))
    /\ ds' \in ChunkFrames
    /\ out' = NoOutput
    /\ Goto("in_store")
    /\ UNCHANGED <<config, nfiles, bound, logging, globbed, tmpdir, input_urls,
                   recipe, all_chunks, loop, stdout>>

\* store_chunk returns: preprocess succeeded and the chunk was written.
StoreChunkReturn ==
    /\ pc = "in_store"
    /\ preprocess(ds).kind = "ok"
    /\ out' = preprocess(ds)
    /\ calls' = Finish(calls, "returned")
    /\ loop' = [loop EXCEPT !.next = NextIndex(loop.next)]
    /\ Goto("store_loop")
    /\ UNCHANGED <<config, nfiles, bound, logging, globbed, tmpdir, input_urls,
                   recipe, all_chunks, stdout, ds>>

\* store_chunk raises: the exception of preprocess, or a storage failure.
StoreChunkRaise ==
    /\ pc = "in_store"
    /\ out' = preprocess(ds)
    /\ calls' = Finish(calls, "raised")
    /\ AbortWith(StoreFailure(IF preprocess(ds).kind = "error"
                               THEN preprocess(ds).error
                               ELSE "StorageError"))
    /\ UNCHANGED <<config, nfiles, bound, logging, globbed, tmpdir, input_urls,
                   recipe, all_chunks, loop, stdout, ds>>

\* Lines 197-198: the call of recipe.finalize_target().
FinalizeBegin ==
    /\ pc = "store_loop"
    /\ LoopExhausted(loop.next, Len(loop.chunks))
    /\ stdout' = Append(stdout, "Finalizing recipe...")
    /\ calls' = Append(calls, Call("finalize", -1))
    /\ Goto("in_finalize")
    /\ UNCHANGED <<config, nfiles, bound, logging, globbed, tmpdir, input_urls,
                   recipe, all_chunks, loop, ds, out>>

\* finalize_target returns; line 200 prints and the script ends.
FinalizeReturn ==
    /\ pc = "in_finalize"
    /\ calls' = Finish(calls, "returned")
    /\ stdout' = Append(stdout, "Recipe executed!")
    /\ pc' = "done"
    /\ exit_code' = 0
    /\ UNCHANGED <<config, nfiles, bound, logging, globbed, tmpdir, input_urls,
                   recipe, all_chunks, loop, error, ds, out>>

FinalizeRaise ==
    /\ pc = "in_finalize"
    /\ calls' = Finish(calls, "raised")
    /\ Abort("StorageError")
    /\ UNCHANGED <<config, nfiles, bound, logging, globbed, tmpdir, input_urls,
                   recipe, all_chunks, loop, stdout, ds, out>>

Next ==
    \/ LoadConfig
    \/ SetupLogging
    \/ BuildInputUrl
    \/ GlobInputs
    \/ MakePattern
    \/ CreateRecipe
    \/ ListChunks
    \/ PrepareBegin
    \/ PrepareReturn
    \/ PrepareRaise
    \/ StoreChunkBegin
    \/ StoreChunkReturn
    \/ StoreChunkRaise
    \/ FinalizeBegin
    \/ FinalizeReturn
    \/ FinalizeRaise

Spec == Init /\ [][Next]_vars

(***************************************************************************)
(* The grid reconstruction on its own: one frame in, one result out.       *)
(***************************************************************************)
GridInit ==
    /\ ds \in Frames
    /\ out = NoOutput
    /\ config = [keys |-> ConfigKeys, enable_logging |-> FALSE,
                 nitems_per_file |-> 1, inputs_per_chunk |-> 1]
    /\ nfiles = 0
    /\ bound = {}
    /\ pc = "preprocess"
    /\ logging = FALSE
    /\ globbed = FALSE
    /\ tmpdir = FALSE
    /\ input_urls = <<>>
    /\ recipe = NoRecipe
    /\ all_chunks = <<>>
    /\ loop = NoLoop
    /\ calls = <<>>
    /\ stdout = <<>>
    /\ error = "none"
    /\ exit_code = -1

Preprocess ==
    /\ out.kind = "none"
    /\ out' = preprocess(ds)
    /\ UNCHANGED ds
    /\ UNCHANGED driver

GridNext == Preprocess

GridSpec == GridInit /\ [][GridNext]_vars

(***************************************************************************)
(* Properties of the driver, checked under Spec.                           *)
(***************************************************************************)
Returned(op, chunk) == [op |-> op, chunk |-> chunk, state |-> "returned"]

IsStore(c) == c.op = "store"
Stores == SelectSeq(calls, IsStore)

FinalizeCalled == \E i \in DOMAIN calls : calls[i].op = "finalize"

\* C1: prepare_target has returned before any store_chunk call begins, and
\* finalize_target is not called before a store_chunk call has returned for
\* every chunk of the plan.
C1_PhaseOrder ==
    \A i \in DOMAIN calls :
        /\ calls[i].op = "store" =>
              \E j \in 1..(i - 1) : calls[j] = Returned("prepare", -1)
        /\ calls[i].op = "finalize" =>
              \A c \in DOMAIN all_chunks :
                  \E j \in 1..(i - 1) :
                      calls[j] = Returned("store", all_chunks[c].ordinal)

C1_Witness ==
    /\ FinalizeCalled
    /\ Len(all_chunks) >= 2

\* C2: when the glob matches no file, the run aborts and no call is ever
\* made on the target store.
C2_ZeroInputsAbort ==
    (globbed /\ input_urls = <<>>) =>
        /\ calls = <<>>
        /\ pc # "done"
        /\ pc = "aborted" => error = "EnumerationError"

\* C3: when the configuration document lacks a required key, the run does
\* no bucket listing, creates no temporary directory and makes no call on
\* the target store.
C3_MissingKeyNoIO ==
    config.keys # ConfigKeys =>
        /\ ~globbed
        /\ ~tmpdir
        /\ calls = <<>>

\* C9: store_chunk is called for the chunks of the plan in ordinal order,
\* each at most once and one at a time; when the store phase is over it has
\* been called, and has returned, once for every chunk, and these are as
\* many chunks as the progress total counted.
C9_StoreOncePerChunkInOrder ==
    /\ Len(Stores) <= Len(all_chunks)
    /\ \A i \in DOMAIN Stores : Stores[i].chunk = all_chunks[i].ordinal
    /\ \A i \in DOMAIN calls : calls[i].state = "running" => i = Len(calls)
    /\ \A i \in DOMAIN Stores : i < Len(Stores) => Stores[i].state = "returned"
    /\ (FinalizeCalled \/ pc = "done") =>
          /\ Len(Stores) = Len(all_chunks)
          /\ Len(Stores) = loop.total
          /\ \A i \in DOMAIN Stores : Stores[i].state = "returned"

C9_Witness ==
    /\ pc = "in_finalize"
    /\ Len(all_chunks) = 3
    /\ Len(Stores) = 3

StoreFailed ==
    \E i \in DOMAIN calls : calls[i].op = "store" /\ calls[i].state = "raised"

\* C10: once a store_chunk call has failed, that call is the last one made
\* on the target store (no later store_chunk, no finalize_target), the run
\* has ended with the exception of that call and a non-zero exit status,
\* the completion message is not printed, and nothing more happens.
C10_StoreFailureAborts ==
    StoreFailed =>
        /\ calls[Len(calls)].op = "store"
        /\ calls[Len(calls)].state = "raised"
        /\ \A i \in 1..(Len(calls) - 1) : calls[i].state = "returned"
        /\ ~FinalizeCalled
        /\ pc = "aborted"
        /\ exit_code # 0 /\ exit_code # -1
        /\ error = (IF out.kind = "error" THEN out.error ELSE "StorageError")
        /\ error # "none"
        /\ \A i \in DOMAIN stdout : stdout[i] # "Recipe executed!"
        /\ ~ENABLED Next

C10_Witness ==
    /\ StoreFailed
    /\ error = "KeyError"
    /\ Len(Stores) = 2
    /\ Len(all_chunks) = 3

(***************************************************************************)
(* Properties of add_latlon_coords, checked under GridSpec.                *)
(***************************************************************************)
AttrOrder == <<"DX", "DY", "SOUTH_WEST_CORNER_LAT", "SOUTH_WEST_CORNER_LON">>

Numeric(d) == \A a \in AttrNames : d.attrs[a].tag = "num"

\* The three-decimal number nearest to a raw value, in thousandths.
NearestMilli(raw) ==
    CHOOSE m \in ((raw \div 10) - 1)..((raw \div 10) + 1) : Abs(10 * m - raw) < 5

CornerLat == NearestMilli(ds.attrs.SOUTH_WEST_CORNER_LAT.v)
CornerLon == NearestMilli(ds.attrs.SOUTH_WEST_CORNER_LON.v)
StepLat == NearestMilli(ds.attrs.DY.v)
StepLon == NearestMilli(ds.attrs.DX.v)

Milli == 10^Decimals

\* A binary32 value equals the decimal m thousandths.
ExactEq(f, m) == Representable(m, Milli) /\ f = Float32(m, Milli)

\* A binary32 value lies within a quarter of a thousandth of m thousandths.
Within(f, m) ==
    /\ F32Leq(Float32Up(4 * m - 1, 4 * Milli), f)
    /\ F32Leq(f, Float32Down(4 * m + 1, 4 * Milli))

\* Below 2^13 the binary32 grain is at most 2^-11, under half a thousandth.
MaxMagnitude == (2^13) * Milli

InRange ==
    /\ Abs(CornerLat) < MaxMagnitude
    /\ Abs(CornerLat + StepLat * ds.north_south) < MaxMagnitude
    /\ Abs(CornerLon) < MaxMagnitude
    /\ Abs(CornerLon + StepLon * ds.east_west) < MaxMagnitude

ExactAxis(axis, corner, step, len) ==
    /\ Len(axis) = len
    /\ \A i \in 1..len : ExactEq(axis[i], corner + step * (i - 1))
    /\ \A i \in 1..Len(axis) : ~ExactEq(axis[i], corner + step * len)

Float32Axis(axis, corner, step, len) ==
    /\ Len(axis) = len
    /\ \A i \in 1..len : axis[i] = Float32(corner + step * (i - 1), Milli)
    /\ step # 0 => \A i \in 1..Len(axis) : ~ExactEq(axis[i], corner + step * len)

Increasing(axis) ==
    \A i \in 1..(Len(axis) - 1) : F32Less(axis[i], axis[i + 1])

NearGrid(axis, corner, step) ==
    \A i \in 1..Len(axis) : Within(axis[i], corner + step * (i - 1))

\* C5 as stated: for DX > 0 and DY > 0 both axes are strictly increasing.
C5_IncreasingForPositive ==
    (out.kind # "none" /\ Numeric(ds)
       /\ ds.attrs.DX.v > 0 /\ ds.attrs.DY.v > 0) =>
        /\ out.kind = "ok"
        /\ Increasing(out.lat)
        /\ Increasing(out.lon)

\* C5 as amended: when DX and DY round to at least 0.001 and the
\* coordinates have magnitude below 8192, both axes are strictly increasing
\* and every value lies within 0.00025 of corner + step*i, so that
\* consecutive values differ by the rounded resolution to within 0.0005.
C5_IncreasingForRoundedPositive ==
    (out.kind # "none" /\ Numeric(ds) /\ InRange
       /\ StepLon >= 1 /\ StepLat >= 1) =>
        /\ out.kind = "ok"
        /\ Increasing(out.lat)
        /\ Increasing(out.lon)
        /\ NearGrid(out.lat, CornerLat, StepLat)
        /\ NearGrid(out.lon, CornerLon, StepLon)

C5_Witness ==
    /\ out.kind = "ok"
    /\ InRange
    /\ ds.north_south >= 3
    /\ ds.east_west >= 3
    /\ ds.attrs.DX = Num(10)
    /\ ds.attrs.DY = Num(2504)

Bad(d, i) == d.attrs[AttrOrder[i]].tag # "num"

FirstBad(d) ==
    CHOOSE i \in DOMAIN AttrOrder : Bad(d, i) /\ \A j \in 1..(i - 1) : ~Bad(d, j)

NoFrame == out.lat = <<>> /\ out.lon = <<>> /\ out.dims = {} /\ out.vars = {}

C8_ZeroLengthFails ==
    /\ (out.kind # "none" /\ Numeric(ds)
          /\ (ds.north_south = 0 \/ ds.east_west = 0)) =>
            /\ out.kind = "error"
            /\ out.error = "DimensionMismatchError"
    /\ out.kind = "ok" => (out.lat # <<>> /\ out.lon # <<>>)

====
